---- MODULE Spec2Model ----
(***************************************************************************)
(* go-bank: the authenticated account-access subsystem.                    *)
(*                                                                         *)
(* State: the account store, the process-wide JWT secret (the JWT_SECRET   *)
(* environment variable), the wall clock, and the last HTTP exchange       *)
(* (request and response).  One action per route of APIServer.Run, each    *)
(* covering the whole handler chain (withJWTAuth, makeHTTPHandleFunc, the  *)
(* handler, the store call and WriteJSON).                                 *)
(*                                                                         *)
(* The store (storage.go, PostgresStore) is not among the sources; it is   *)
(* modelled from the Account Store contract of the specification.          *)
(* Store outages (StoreUnavailable) are not modelled.                      *)
(***************************************************************************)
EXTENDS Integers, Sequences, FiniteSets, TLC

VARIABLES secret, accounts, nextID, clock, issuedLog, req, resp

vars == <<secret, accounts, nextID, clock, issuedLog, req, resp>>

(***************************** bounds **************************************)
\* accounts ever created (ids 1..MaxAccounts)
MaxAccounts == 2
\* clock ticks
MaxTime == 1

(************************* program constants *******************************)
NumberRange == 1000000
ExpiresAt == 15000
DefaultCost == 10
StatusOK == 200
StatusForbidden == 403
StatusBadRequest == 400

(***************************** inputs **************************************)
\* outcomes of rand.Intn(NumberRange) that the model draws
Numbers == {n \in {42, 99} : n \in 0..(NumberRange - 1)}
Passwords == {"hunter88888", "letmein"}
Salts == {"salt"}
\* JWT_SECRET: unset/empty, or set
Secrets == {"", "s3cr3t"}
\* keys a client can sign with on its own
ClientKeys == {"", "guess"}
Methods == {"GET", "POST", "DELETE"}
\* path parameter {id}: decimal strings, or one that strconv.Atoi rejects
PathIDs == {ToString(i) : i \in 1..MaxAccounts} \cup {"abc"}
\* wall clock: any instant of the process's life is after the epoch + ExpiresAt
BootTime == ExpiresAt + 1
Now == BootTime + clock

(************************** bcrypt (types.go) ******************************)
Bcrypt(cost, salt, pw) == <<cost, salt, pw>>

GenerateFromPassword(pw, salt) ==
    [cost |-> DefaultCost, salt |-> salt, digest |-> Bcrypt(DefaultCost, salt, pw)]

\* a faulty variant: any password passes
ValidPassword_IgnorePw(acc, pw) == TRUE

ValidPassword(acc, pw) ==
    LET h == acc.encryptedPassword
    IN  h.digest = Bcrypt(h.cost, h.salt, pw)

NewAccount(password, salt, number) ==
    [id |-> 0,
     number |-> number,
     encryptedPassword |-> GenerateFromPassword(password, salt),
     balance |-> 0]

\* json:"-" on EncryptedPassword
AccountJSON(acc) == [id |-> acc.id, number |-> acc.number, balance |-> acc.balance]

(******************************* store *************************************)
StoreCreateAccount(accs, nid, acc) ==
    [accounts |-> [i \in (DOMAIN accs) \cup {nid} |->
                      IF i = nid THEN [acc EXCEPT !.id = nid] ELSE accs[i]],
     nextID |-> nid + 1]

GetAccountByID(accs, id) ==
    IF id \in DOMAIN accs
    THEN [err |-> "", account |-> accs[id]]
    ELSE [err |-> "account not found"]

\* the possible results of one call: the number is not a key of the store,
\* so any record carrying it may be the row returned
GetAccountByNumber(accs, number) ==
    LET hits == {i \in DOMAIN accs : accs[i].number = number}
    IN  IF hits = {}
        THEN {[err |-> "account not found"]}
        ELSE {[err |-> "", account |-> accs[i]] : i \in hits}

StoreDeleteAccount(accs, id) == [i \in (DOMAIN accs) \ {id} |-> accs[i]]

GetAccounts(accs) == {AccountJSON(accs[i]) : i \in DOMAIN accs}

(************************* JSON / JWT encoding *****************************)
\* encoding/json: a Go int64 becomes a JSON number, which decodes into
\* interface{} as float64 (exact below 2^53; account numbers are below
\* NumberRange); a JSON string decodes as string.
JSONEncodeInt(n) == [json |-> "number", v |-> n]
JSONDecodeValue(j) ==
    IF j.json = "number" THEN [go |-> "float64", v |-> j.v]
    ELSE [go |-> "string", v |-> j.v]
JSONDecodeClaims(c) == [k \in DOMAIN c |-> JSONDecodeValue(c[k])]

HMACFamily == {"HS256", "HS384"}

SigningInput(alg, claims) == [alg |-> alg, claims |-> claims]
Sign(alg, key, msg) == [mac |-> [alg |-> alg, key |-> key, msg |-> msg], flip |-> FALSE]
FlipByte(sig) == [sig EXCEPT !.flip = ~@]
Verify(alg, key, msg, sig) == sig = Sign(alg, key, msg)

Token(alg, claims, sig) == [form |-> "jwt", alg |-> alg, claims |-> claims, sig |-> sig]
NoHeader == [form |-> "empty"]
Garbage == [form |-> "garbage"]

SignedString(alg, claims, key) == Token(alg, claims, Sign(alg, key, SigningInput(alg, claims)))

(************************ token service (api.go) ***************************)
\* a faulty variant: the claim carries the store id instead of the account number
createJWT_WrongNumber(account, key) ==
    SignedString("HS256",
                 [expiresAt |-> JSONEncodeInt(ExpiresAt),
                  accountNumber |-> JSONEncodeInt(account.id)],
                 key)

createJWT(account, key) ==
    SignedString("HS256",
                 [expiresAt |-> JSONEncodeInt(ExpiresAt),
                  accountNumber |-> JSONEncodeInt(account.number)],
                 key)

\* a faulty variant: expiresAt enforced like exp
ClaimsValid_ExpiresAt(claims, now) ==
    /\ ("exp" \in DOMAIN claims) => (claims["exp"].go = "float64" /\ now <= claims["exp"].v)
    /\ ("expiresAt" \in DOMAIN claims) =>
           (claims["expiresAt"].go = "float64" /\ now <= claims["expiresAt"].v)

\* jwt.MapClaims.Valid: the registered claim exp, when present, must not be
\* in the past; "expiresAt" is not a registered claim
ClaimsValid(claims, now) ==
    ("exp" \in DOMAIN claims) => (claims["exp"].go = "float64" /\ now <= claims["exp"].v)

\* the Keyfunc of validateJWT: an error unless the method is *SigningMethodHMAC
Keyfunc(alg, key) ==
    IF alg \notin HMACFamily
    THEN [err |-> "BadAlgorithm", key |-> ""]
    ELSE [err |-> "", key |-> key]

\* a faulty variant: parsed but not verified
validateJWT_NoVerify(tokenString, key, now) ==
    IF tokenString.form # "jwt"
    THEN [err |-> "Malformed", valid |-> FALSE]
    ELSE [err |-> "", valid |-> TRUE, claims |-> JSONDecodeClaims(tokenString.claims)]

\* jwt.Parse(tokenString, Keyfunc): token.Valid is set only without error
validateJWT(tokenString, key, now) ==
    IF tokenString.form # "jwt"
    THEN [err |-> "Malformed", valid |-> FALSE]
    ELSE LET claims == JSONDecodeClaims(tokenString.claims)
             k == Keyfunc(tokenString.alg, key)
         IN  IF k.err # ""
             THEN [err |-> k.err, valid |-> FALSE]
             ELSE IF ~ClaimsValid(claims, now)
             THEN [err |-> "Expired", valid |-> FALSE]
             ELSE IF ~Verify(tokenString.alg, k.key,
                             SigningInput(tokenString.alg, tokenString.claims),
                             tokenString.sig)
             THEN [err |-> "BadSignature", valid |-> FALSE]
             ELSE [err |-> "", valid |-> TRUE, claims |-> claims]

(************************** responses (api.go) *****************************)
ApiError(msg) == [error |-> msg]
WriteJSON(status, v) == [status |-> status, body |-> v]
permissionDenied == WriteJSON(StatusForbidden, ApiError("permission denied"))
\* a panic in a handler: net/http recovers it and closes the connection
\* with nothing written
Aborted == [status |-> 0, body |-> [aborted |-> TRUE]]
NoResponse == [status |-> 0, body |-> [none |-> TRUE]]

\* strconv.Atoi on the path parameter
getID(idStr) ==
    IF \E i \in 1..MaxAccounts : ToString(i) = idStr
    THEN [err |-> "", id |-> CHOOSE i \in 1..MaxAccounts : ToString(i) = idStr]
    ELSE [err |-> "invalid id given", id |-> 0]

\* a handler's result: the error it returns, the response it wrote, the
\* store it leaves
Result(err, out, accs) == [err |-> err, out |-> out, accounts |-> accs]
Fail(msg, accs) == Result(msg, NoResponse, accs)
Ok(out, accs) == Result("", out, accs)

makeHTTPHandleFunc(r) ==
    IF r.err # "" THEN WriteJSON(StatusBadRequest, ApiError(r.err)) ELSE r.out

(***************************** handlers ************************************)
handleLogin(method, body, lookup, key, accs) ==
    IF method # "POST" THEN Fail("method not allowed", accs)
    ELSE IF ~body.ok THEN Fail("invalid request body", accs)
    ELSE IF lookup.err # "" THEN Fail(lookup.err, accs)
    ELSE IF ~ValidPassword(lookup.account, body.password) THEN Fail("not authenticated", accs)
    ELSE Ok(WriteJSON(StatusOK, [token |-> createJWT(lookup.account, key),
                                 number |-> lookup.account.number]),
            accs)

handleGetAccount(accs) == Ok(WriteJSON(StatusOK, [accounts |-> GetAccounts(accs)]), accs)

handleCreateAccount(body, salt, number, accs, nid) ==
    IF ~body.ok THEN Fail("invalid request body", accs)
    ELSE LET st == StoreCreateAccount(accs, nid, NewAccount(body.password, salt, number))
         IN  Ok(WriteJSON(StatusOK, [account |-> AccountJSON(st.accounts[nid])]), st.accounts)

handleAccount(method, body, salt, number, accs, nid) ==
    IF method = "GET" THEN handleGetAccount(accs)
    ELSE IF method = "POST" THEN handleCreateAccount(body, salt, number, accs, nid)
    ELSE Fail("method not allowed", accs)

handleDeleteAccount(idStr, accs) ==
    LET u == getID(idStr)
    IN  IF u.err # "" THEN Fail(u.err, accs)
        ELSE Ok(WriteJSON(StatusOK, [deleted |-> u.id]), StoreDeleteAccount(accs, u.id))

handleGetAccountByID(method, idStr, accs) ==
    IF method = "GET"
    THEN LET u == getID(idStr)
         IN  IF u.err # "" THEN Fail(u.err, accs)
             ELSE LET a == GetAccountByID(accs, u.id)
                  IN  IF a.err # "" THEN Fail(a.err, accs)
                      ELSE Ok(WriteJSON(StatusOK, [account |-> AccountJSON(a.account)]), accs)
    ELSE IF method = "DELETE" THEN handleDeleteAccount(idStr, accs)
    ELSE Fail("method not allowed", accs)

handleTransfer(body, accs) ==
    IF ~body.ok THEN Fail("invalid request body", accs)
    ELSE Ok(WriteJSON(StatusOK, [toAccount |-> body.toAccount, amount |-> body.amount]), accs)

(*************************** access guard **********************************)
\* a faulty variant: the account-number comparison is missing
withJWTAuth_NoOwnerCheck(tokenString, idStr, accs, key, now) ==
    LET token == validateJWT(tokenString, key, now)
    IN  IF token.err # "" \/ ~token.valid THEN "deny"
        ELSE IF getID(idStr).err # "" THEN "deny"
        ELSE IF GetAccountByID(accs, getID(idStr).id).err # "" THEN "deny"
        ELSE "next"

\* the outcome of withJWTAuth before the wrapped handler: "deny"
\* (permissionDenied), "panic" (the unchecked type assertion on the
\* accountNumber claim) or "next" (handlerFunc is called)
withJWTAuth(tokenString, idStr, accs, key, now) ==
    LET token == validateJWT(tokenString, key, now)
    IN  IF token.err # "" THEN "deny"
        ELSE IF ~token.valid THEN "deny"
        ELSE LET u == getID(idStr)
             IN  IF u.err # "" THEN "deny"
                 ELSE LET a == GetAccountByID(accs, u.id)
                      IN  IF a.err # "" THEN "deny"
                          ELSE IF "accountNumber" \notin DOMAIN token.claims THEN "panic"
                          ELSE IF token.claims["accountNumber"].go # "float64" THEN "panic"
                          ELSE IF a.account.number # token.claims["accountNumber"].v
                          THEN "deny"
                          ELSE "next"

\* APIServer.Run: the routes, and whether each is wrapped by withJWTAuth
Routes == {"/login", "/account", "/account/{id}", "/transfer"}
Guarded(route) == route = "/account/{id}"

(************************** what clients send ******************************)
NumberClaims ==
    {[expiresAt |-> JSONEncodeInt(ExpiresAt), accountNumber |-> JSONEncodeInt(n)] : n \in Numbers}

\* claims no login writes: no accountNumber, accountNumber as a JSON
\* string, and a registered exp claim that is in the past
OddClaims ==
    {[expiresAt |-> JSONEncodeInt(ExpiresAt)],
     [expiresAt |-> JSONEncodeInt(ExpiresAt), accountNumber |-> [json |-> "string", v |-> "42"]],
     [exp |-> JSONEncodeInt(ExpiresAt), accountNumber |-> JSONEncodeInt(42)]}

\* tokens made without the server: signed with a key of the client's own,
\* or with a method other than HS256
ForgedTokens ==
    {SignedString("HS256", c, k) : c \in NumberClaims, k \in ClientKeys}
    \cup {SignedString("HS256", c, "") : c \in OddClaims}
    \cup {SignedString(alg, [expiresAt |-> JSONEncodeInt(ExpiresAt),
                             accountNumber |-> JSONEncodeInt(42)], "") :
             alg \in {"HS384", "RS256", "none"}}

\* tokens derived from the ones logins have handed out
IssuedTokens(log) == {e.token : e \in log}
TamperedTokens(log) ==
    {Token(t.alg, t.claims, FlipByte(t.sig)) : t \in IssuedTokens(log)}
    \cup {Token(t.alg, c, t.sig) : t \in IssuedTokens(log), c \in NumberClaims}

\* the x-jwt-token header of a request
ClientTokens(log) ==
    {NoHeader, Garbage} \cup IssuedTokens(log) \cup TamperedTokens(log) \cup ForgedTokens

BadBody == [ok |-> FALSE]
LoginBodies == {BadBody} \cup [ok : {TRUE}, number : Numbers, password : Passwords]
CreateBodies == {BadBody} \cup [ok : {TRUE}, password : Passwords]
TransferBodies == {BadBody, [ok |-> TRUE, toAccount |-> 42, amount |-> 1]}

Request(route, method, token, id, body) ==
    [route |-> route, method |-> method, token |-> token, id |-> id, body |-> body]
NoRequest == Request("", "", NoHeader, "", BadBody)

(*************************** the state machine *****************************)
\* what an exchange leaves behind: the response, the guard's outcome
\* ("next": the route's handler ran) and the store the request met
Exchange(out, guard, accs) ==
    [status |-> out.status, body |-> out.body, next |-> guard, store |-> accs]
NoExchange == Exchange(NoResponse, "", <<>>)

\* main.go: the store as main leaves it when the server starts, with
\* -seed (seedAccounts: one account) or without
seedAccounts(number, salt) ==
    StoreCreateAccount(<<>>, 1, NewAccount("hunter88888", salt, number))

Init ==
    /\ secret \in Secrets
    /\ \E seed \in BOOLEAN, n \in Numbers, s \in Salts :
          LET st == IF seed THEN seedAccounts(n, s) ELSE [accounts |-> <<>>, nextID |-> 1]
          IN  accounts = st.accounts /\ nextID = st.nextID
    /\ clock = 0
    /\ issuedLog = {}
    /\ req = NoRequest
    /\ resp = NoExchange

\* the server handles one exchange at a time in this model: a request is
\* taken when none is in flight
Idle == req = NoRequest

\* /login
Login(method, body) ==
    /\ Idle
    /\ \E lookup \in (IF body.ok THEN GetAccountByNumber(accounts, body.number)
                       ELSE {[err |-> "account not found"]}) :
          LET r == handleLogin(method, body, lookup, secret, accounts)
              out == makeHTTPHandleFunc(r)
          IN  /\ req' = Request("/login", method, NoHeader, "", body)
              /\ resp' = Exchange(out, "next", accounts)
              /\ issuedLog' = IF r.err = ""
                              THEN issuedLog \cup {[token |-> out.body.token,
                                                    id |-> lookup.account.id]}
                              ELSE issuedLog
    /\ UNCHANGED <<secret, accounts, nextID, clock>>

\* /account
Account(method, body, salt, number) ==
    /\ Idle
    /\ (method = "POST" /\ body.ok) => nextID <= MaxAccounts
    /\ LET r == handleAccount(method, body, salt, number, accounts, nextID)
           out == makeHTTPHandleFunc(r)
       IN  /\ req' = Request("/account", method, NoHeader, "", body)
           /\ resp' = Exchange(out, "next", accounts)
           /\ accounts' = r.accounts
           /\ nextID' = IF r.accounts = accounts THEN nextID ELSE nextID + 1
    /\ UNCHANGED <<secret, clock, issuedLog>>

\* /account/{id}
AccountByID(method, tokenString, idStr) ==
    /\ Idle
    /\ LET g == withJWTAuth(tokenString, idStr, accounts, secret, Now)
           r == handleGetAccountByID(method, idStr, accounts)
           out == IF g = "deny" THEN permissionDenied
                  ELSE IF g = "panic" THEN Aborted
                  ELSE makeHTTPHandleFunc(r)
       IN  /\ req' = Request("/account/{id}", method, tokenString, idStr, BadBody)
           /\ resp' = Exchange(out, g, accounts)
           /\ accounts' = IF g = "next" THEN r.accounts ELSE accounts
    /\ UNCHANGED <<secret, nextID, clock, issuedLog>>

\* /transfer
Transfer(body) ==
    /\ Idle
    /\ req' = Request("/transfer", "POST", NoHeader, "", body)
    /\ resp' = Exchange(makeHTTPHandleFunc(handleTransfer(body, accounts)), "next", accounts)
    /\ UNCHANGED <<secret, accounts, nextID, clock, issuedLog>>

\* the exchange is over: the client has its response
Close ==
    /\ req # NoRequest
    /\ req' = NoRequest
    /\ resp' = NoExchange
    /\ UNCHANGED <<secret, accounts, nextID, clock, issuedLog>>

\* time passes
Tick ==
    /\ Idle
    /\ clock < MaxTime
    /\ clock' = clock + 1
    /\ UNCHANGED <<secret, accounts, nextID, issuedLog, req, resp>>

Next ==
    \/ Idle /\ \E m \in Methods, b \in LoginBodies : Login(m, b)
    \/ Idle /\ \E m \in Methods, b \in CreateBodies, s \in Salts, n \in Numbers : Account(m, b, s, n)
    \/ Idle /\ \E m \in Methods, t \in ClientTokens(issuedLog), i \in PathIDs : AccountByID(m, t, i)
    \/ Idle /\ \E b \in TransferBodies : Transfer(b)
    \/ Close
    \/ Tick

Spec == Init /\ [][Next]_vars

(******************************* claims ************************************)
\* the exchange in req/resp went through the access guard
GuardedExchange == req # NoRequest /\ Guarded(req.route)
\* ... and the guard called the wrapped handler
Admitted == GuardedExchange /\ resp.next = "next"
\* the response as the client sees it
Outcome == [status |-> resp.status, body |-> resp.body]
\* t is a three-part token of the HMAC family whose signature is the MAC,
\* under key, of its own header and claims
SignedUnder(t, key) ==
    /\ t.form = "jwt"
    /\ t.alg \in {"HS256", "HS384"}
    /\ ~t.sig.flip
    /\ t.sig.mac = [alg |-> t.alg, key |-> key, msg |-> [alg |-> t.alg, claims |-> t.claims]]
\* the token's accountNumber claim is the JSON number n
ClaimsNumber(t, n) ==
    /\ "accountNumber" \in DOMAIN t.claims
    /\ t.claims["accountNumber"] = [json |-> "number", v |-> n]

\* C1: the guard calls the wrapped handler only if the token validates, the
\* path id names an account of the store and that account's Number equals
\* the token's accountNumber claim; a token issued for an account is
\* admitted on that account's own id.
C1_GuardAdmitsOnlyOwner ==
    /\ Admitted =>
          /\ SignedUnder(req.token, secret)
          /\ \E i \in DOMAIN resp.store :
                ToString(i) = req.id /\ ClaimsNumber(req.token, resp.store[i].number)
    /\ (GuardedExchange /\ req.token \in IssuedTokens(issuedLog)) =>
          \A i \in DOMAIN resp.store :
             ToString(i) = req.id =>
                (resp.next = "next" <=> ClaimsNumber(req.token, resp.store[i].number))

\* C1 witness: a token issued to one account is admitted on its id while
\* the store holds another account with another number
C1_Witness ==
    /\ Admitted
    /\ req.token \in IssuedTokens(issuedLog)
    /\ \E i, j \in DOMAIN resp.store :
          ToString(i) = req.id /\ resp.store[j].number # resp.store[i].number

\* C2: every guarded request that does not reach the wrapped handler ends
\* in the one PermissionDenied response.
C2_UniformDenial == (GuardedExchange /\ ~Admitted) => Outcome = permissionDenied

\* C3: validating the token issued for an account, under the same secret,
\* succeeds and yields that account's Number as the accountNumber claim.
\* (Every store, secret and clock the model reaches is reached between
\* exchanges, where the round trip is computed for every stored account;
\* during an exchange it is checked on the token the login returned.)
C3_TokenRoundTrip ==
    /\ Idle =>
          \A i \in DOMAIN accounts :
          LET v == validateJWT(createJWT(accounts[i], secret), secret, Now)
          IN  /\ v.err = "" /\ v.valid
              /\ v.claims["accountNumber"] = [go |-> "float64", v |-> accounts[i].number]
    /\ (req.route = "/login" /\ resp.status = StatusOK) =>
          LET v == validateJWT(resp.body.token, secret, Now)
          IN  /\ v.err = "" /\ v.valid
              /\ v.claims["accountNumber"] = [go |-> "float64", v |-> resp.body.number]

\* C3 witness: a login has returned a token
C3_Witness == req.route = "/login" /\ resp.status = StatusOK /\ accounts # <<>>

\* C4: a token is accepted only if it is of the HMAC family and signed,
\* untampered, with the current secret.  (validateJWT is applied to every
\* token a client can present, under every secret, clock and login log the
\* model reaches between exchanges; during an exchange the token the guard
\* admitted is checked.)
C4_AcceptsOnlySignedHMAC ==
    /\ Idle =>
          \A t \in ClientTokens(issuedLog) :
             validateJWT(t, secret, Now).valid => SignedUnder(t, secret)
    /\ Admitted => SignedUnder(req.token, secret)

\* C4 witness: tokens signed with another key, with a flipped signature
\* and with a non-HMAC method are on offer, and one of them was just denied
C4_Witness ==
    /\ GuardedExchange /\ Outcome = permissionDenied
    /\ req.token.form = "jwt"
    /\ \/ req.token.alg \notin {"HS256", "HS384"}
       \/ req.token.sig.flip
       \/ req.token.sig.mac.key # secret
    /\ \E t \in TamperedTokens(issuedLog) : t.sig.flip

\* C5: a login returns a token only for a POST whose number names a stored
\* account and whose password matches that account's hash; the token's
\* claim and the response's number are that account's Number.
C5_LoginIssuesOnlyAfterVerify ==
    (req.route = "/login") =>
       /\ (resp.status = StatusOK) <=> ("token" \in DOMAIN resp.body)
       /\ (resp.status = StatusOK) =>
             /\ req.method = "POST" /\ req.body.ok
             /\ \E i \in DOMAIN resp.store :
                   /\ resp.store[i].number = req.body.number
                   /\ resp.store[i].encryptedPassword.digest[3] = req.body.password
                   /\ resp.body.number = resp.store[i].number
                   /\ ClaimsNumber(resp.body.token, resp.store[i].number)
                   /\ [token |-> resp.body.token, id |-> i] \in issuedLog

\* C5 witness: a login with a wrong password was refused while the account
\* exists, after an earlier login had succeeded
C5_Witness ==
    /\ req.route = "/login" /\ req.method = "POST" /\ req.body.ok
    /\ resp.status # StatusOK
    /\ \E i \in DOMAIN resp.store : resp.store[i].number = req.body.number
    /\ issuedLog # {}

\* C6: under an empty secret no login issues a token and no guarded request
\* is admitted.
C6_EmptySecretRefused ==
    (secret = "") =>
       /\ ~(req.route = "/login" /\ resp.status = StatusOK)
       /\ ~Admitted

\* C7: a failed login (unknown number or wrong password) ends in the same
\* PermissionDenied response as a guard denial.
C7_LoginFailureIsPermissionDenied ==
    (req.route = "/login" /\ req.method = "POST" /\ req.body.ok /\ resp.status # StatusOK)
       => Outcome = permissionDenied

\* C8: every token a login has issued validates in every later state.
C8_IssuedTokensStayValid ==
    \A e \in issuedLog :
       LET v == validateJWT(e.token, secret, Now) IN v.err = "" /\ v.valid

\* C8 witness: time has passed and the account a token was issued for is
\* deleted
C8_Witness == clock > 0 /\ \E e \in issuedLog : e.id \notin DOMAIN accounts

\* C9: a response carrying stored account records, or a deletion, is given
\* only to a guarded request whose token validates.
C9_AccountOpsGated ==
    (/\ req # NoRequest
     /\ resp.status = StatusOK
     /\ \/ "accounts" \in DOMAIN resp.body /\ resp.body.accounts # {}
        \/ "account" \in DOMAIN resp.body /\ req.method = "GET"
        \/ "deleted" \in DOMAIN resp.body)
       => (Guarded(req.route) /\ SignedUnder(req.token, secret))

\* C10: an issued token is admitted only on the id of an account it was
\* issued for.
C10_IssuedTokenOnlyOnOwnAccount ==
    (secret # "" /\ Admitted /\ req.token \in IssuedTokens(issuedLog)) =>
       \E e \in issuedLog : e.token = req.token /\ ToString(e.id) = req.id
====
